---- MODULE Spec2Model ----
(***************************************************************************)
(* File organizer engine (file_organizer.py): classification of the files  *)
(* of a source directory into destination folders, conflict resolution,    *)
(* transfer (move / copy / dry run), undo journal and its replay.          *)
(*                                                                         *)
(* Strings are sequences of one-character strings, a file name is such a   *)
(* sequence, a path is the sequence of its components from the root.       *)
(* The file system is a function from the existing paths to their nodes.   *)
(***************************************************************************)
EXTENDS Integers, Sequences, FiniteSets, TLC

(* ------------------------------ bounds --------------------------------- *)
\* at most this many files are present under the source directory at start
MaxSrcFiles == 2
\* at most this many entries exist under the destination directory at start
MaxPreExisting == 1
\* at most this many operating-system calls fail in one behaviour
MaxFaults == 1
\* at most this many runs are started from the main window in one behaviour
MaxRuns == 1
\* at most this many replays are started from the main window in one behaviour
MaxUndos == 1
\* at most this many extensions are listed by one category of a drawn table
MaxExts == 2
\* at most this many source files are changed between a run and its replay
MaxEdits == 1

\* the element of the singleton S: { e(x) : x \in {v} } computes v once for
\* its uses in e
The(S) == CHOOSE x \in S : TRUE

(* ------------------------- strings and names --------------------------- *)
\* the code point U+01F0 (j with caron) and the combining caron U+030C are
\* written by their names; str.upper() maps U+01F0 to "J" + U+030C
JCaron == "U+01F0"
CombCaron == "U+030C"

LowerLetters == {"a", "b", "d", "e", "f", "g", "i", "j", "m", "o", "p", "s", "u", "x", "y", "z", JCaron}
UpperLetters == {"A", "B", "D", "F", "G", "I", "J", "O", "P", "S"}

\* str.isalpha() of one code point
IsAlphaChar(c) == c \in LowerLetters \cup UpperLetters

\* str.isalpha(): non-empty and every code point alphabetic
IsAlpha(s) == Len(s) > 0 /\ \A i \in 1..Len(s) : IsAlphaChar(s[i])

\* str.lower() of one code point
LowerChar(c) ==
    CASE c = "A" -> "a" [] c = "B" -> "b" [] c = "D" -> "d" [] c = "F" -> "f"
      [] c = "G" -> "g" [] c = "I" -> "i" [] c = "J" -> "j" [] c = "O" -> "o"
      [] c = "P" -> "p" [] c = "S" -> "s"
      [] OTHER -> c

\* str.lower()
Lower(s) == [i \in 1..Len(s) |-> LowerChar(s[i])]

\* str.upper() of one code point: a string, since U+01F0 has a two code
\* point upper case
UpperChar(c) ==
    CASE c = "a" -> <<"A">> [] c = "b" -> <<"B">> [] c = "d" -> <<"D">>
      [] c = "f" -> <<"F">> [] c = "g" -> <<"G">> [] c = "j" -> <<"J">>
      [] c = "o" -> <<"O">> [] c = "p" -> <<"P">> [] c = "s" -> <<"S">>
      [] c = "e" -> <<"E">> [] c = "m" -> <<"M">> [] c = "u" -> <<"U">>
      [] c = "x" -> <<"X">> [] c = "y" -> <<"Y">> [] c = "z" -> <<"Z">>
      [] c = JCaron -> <<"J", CombCaron>>
      [] OTHER -> <<c>>

\* str.upper() of the action name in a journal line
ActionUpper(action) ==
    IF action = "move" THEN <<"M", "O", "V", "E">> ELSE <<"C", "O", "P", "Y">>

\* decimal digits of a natural number, str(n)
RECURSIVE Itoa(_)
Itoa(n) ==
    LET d == <<"0", "1", "2", "3", "4", "5", "6", "7", "8", "9">>[(n % 10) + 1]
    IN  IF n < 10 THEN <<d>> ELSE Itoa(n \div 10) \o <<d>>

\* f"{n:02d}"
Pad2(n) == IF n < 10 THEN <<"0">> \o Itoa(n) ELSE Itoa(n)

\* str.rfind(c): the last position of c in s, 0 when absent
RFind(s, c) ==
    LET hits == {i \in 1..Len(s) : s[i] = c}
    IN  IF hits = {} THEN 0 ELSE CHOOSE i \in hits : \A j \in hits : j <= i

\* pathlib: PurePath.suffix, the part from the last dot, provided the dot is
\* neither the first nor the last character of the name
Suffix(name) ==
    LET i == RFind(name, ".")
    IN  IF 1 < i /\ i < Len(name) THEN SubSeq(name, i, Len(name)) ELSE <<>>

\* pathlib: PurePath.stem, the name without its suffix
Stem(name) ==
    LET i == RFind(name, ".")
    IN  IF 1 < i /\ i < Len(name) THEN SubSeq(name, 1, i - 1) ELSE name

(* ------------------------------- paths --------------------------------- *)
Name(p) == p[Len(p)]
Parent(p) == SubSeq(p, 1, Len(p) - 1)
Join(dir, name) == Append(dir, name)

\* pathlib: PurePath.parents, the proper ancestors of p (the root included)
Parents(p) == {SubSeq(p, 1, k) : k \in 0..(Len(p) - 1)}

\* p is q or lies below q
IsUnder(p, q) == Len(q) <= Len(p) /\ SubSeq(p, 1, Len(q)) = q

\* str(path) of an absolute path
RECURSIVE PathStr(_)
PathStr(p) ==
    IF p = <<>> THEN <<>> ELSE PathStr(Parent(p)) \o <<"/">> \o Name(p)

\* the fields of s separated by sep, str.split(sep)
RECURSIVE Split(_, _)
Split(s, sep) ==
    LET hits == {i \in 1..Len(s) : s[i] = sep}
    IN  IF hits = {} THEN <<s>>
        ELSE LET i == CHOOSE k \in hits : \A j \in hits : k <= j
             IN  <<SubSeq(s, 1, i - 1)>> \o Split(SubSeq(s, i + 1, Len(s)), sep)

\* Path(text): the components between slashes, empty and "." ones dropped
ParsePath(text) == SelectSeq(Split(text, "/"), LAMBDA n : n # <<>> /\ n # <<".">>)

Whitespace == {" ", "\n"}

\* str.strip()
RECURSIVE Strip(_)
Strip(s) ==
    IF s = <<>> THEN s
    ELSE IF s[1] \in Whitespace THEN Strip(Tail(s))
    ELSE IF s[Len(s)] \in Whitespace THEN Strip(SubSeq(s, 1, Len(s) - 1))
    ELSE s

\* file.readlines(): the lines of a text, each with its line terminator
RECURSIVE ReadLines(_)
ReadLines(text) ==
    LET hits == {i \in 1..Len(text) : text[i] = "\n"}
    IN  IF text = <<>> THEN <<>>
        ELSE IF hits = {} THEN <<text>>
        ELSE LET i == CHOOSE k \in hits : \A j \in hits : k <= j
             IN  <<SubSeq(text, 1, i)>> \o ReadLines(SubSeq(text, i + 1, Len(text)))

(* ---------------------------- file system ------------------------------ *)
\* a node of the file system: a regular file with its content, modification
\* date and size in bytes, or a directory
FileNode(content, mtime, size) ==
    [kind |-> "file", content |-> content, mtime |-> mtime, size |-> size]
DirNode == [kind |-> "dir", content |-> <<>>, mtime |-> [year |-> 0, month |-> 0, day |-> 0], size |-> 0]

\* Path.exists(), Path.is_file(), Path.is_dir(); the root always exists
Exists(fs, p) == p = <<>> \/ p \in DOMAIN fs
IsFile(fs, p) == p \in DOMAIN fs /\ fs[p].kind = "file"
IsDir(fs, p) == p = <<>> \/ (p \in DOMAIN fs /\ fs[p].kind = "dir")

\* the non-root prefixes of p, p included
Prefixes(p) == {SubSeq(p, 1, k) : k \in 1..Len(p)}

\* Path.mkdir(parents=True, exist_ok=True): fails when a prefix of p is a
\* regular file, adds the missing directories otherwise
Mkdirs(fs, p) ==
    IF \E q \in Prefixes(p) : IsFile(fs, q)
    THEN [ok |-> FALSE, fs |-> fs]
    ELSE [ok |-> TRUE,
          fs |-> [q \in DOMAIN fs \cup Prefixes(p) |->
                     IF q \in DOMAIN fs THEN fs[q] ELSE DirNode]]

\* Path.unlink(missing_ok=True)
Unlink(fs, p) == [q \in DOMAIN fs \ {p} |-> fs[q]]

\* os.rename(src, dst) of a file or of a whole directory tree onto a path
\* that is absent or, for a file, a regular file
Rename(fs, src, dst) ==
    LET moved == {q \in DOMAIN fs : IsUnder(q, src)}
        rebase(q) == dst \o SubSeq(q, Len(src) + 1, Len(q))
        kept == (DOMAIN fs \ moved) \ {dst}
    IN  [q \in kept \cup {rebase(m) : m \in moved} |->
            IF q \in kept THEN fs[q]
            ELSE fs[CHOOSE m \in moved : rebase(m) = q]]

\* a move that leaves the source in place (what a copy does)
Move_keepsSource(fs, src, dst) ==
    LET real_dst == IF IsDir(fs, dst) THEN Join(dst, Name(src)) ELSE dst
    IN  IF ~IsFile(fs, src) \/ IsDir(fs, real_dst) \/ ~IsDir(fs, Parent(real_dst))
          THEN [ok |-> FALSE, fs |-> fs]
        ELSE [ok |-> TRUE,
              fs |-> [q \in DOMAIN fs \cup {real_dst} |->
                         IF q = real_dst THEN fs[src] ELSE fs[q]]]

\* shutil.move(src, dst): into dst when dst is a directory, onto dst
\* otherwise
Move(fs, src, dst) ==
    LET real_dst == IF IsDir(fs, dst) THEN Join(dst, Name(src)) ELSE dst
    IN  IF ~Exists(fs, src) \/ src = <<>>
          THEN [ok |-> FALSE, fs |-> fs]
        ELSE IF IsDir(fs, dst) /\ Exists(fs, real_dst)
          THEN [ok |-> FALSE, fs |-> fs]
        ELSE IF ~IsDir(fs, Parent(real_dst))
          THEN [ok |-> FALSE, fs |-> fs]
        ELSE IF IsDir(fs, src) /\ (IsUnder(real_dst, src) \/ IsFile(fs, real_dst))
          THEN [ok |-> FALSE, fs |-> fs]
        ELSE [ok |-> TRUE, fs |-> Rename(fs, src, real_dst)]

\* shutil.copy2(src, dst): content, modification time and size of src are
\* written into dst when dst is a directory, onto dst otherwise
Copy2(fs, src, dst) ==
    LET real_dst == IF IsDir(fs, dst) THEN Join(dst, Name(src)) ELSE dst
    IN  IF ~IsFile(fs, src) \/ IsDir(fs, real_dst) \/ ~IsDir(fs, Parent(real_dst))
          THEN [ok |-> FALSE, fs |-> fs]
        ELSE [ok |-> TRUE,
              fs |-> [q \in DOMAIN fs \cup {real_dst} |->
                         IF q = real_dst THEN fs[src] ELSE fs[q]]]

(* --------------------------- category index ---------------------------- *)
Images == <<"I", "m", "a", "g", "e", "s">>
Documents == <<"D", "o", "c", "u", "m", "e", "n", "t", "s">>
Others == <<"O", "t", "h", "e", "r", "s">>
ExtJpg == <<".", "j", "p", "g">>
ExtJpgUpper == <<".", "J", "P", "G">>
ExtPdf == <<".", "p", "d", "f">>

\* the category table handed to process_directory, in insertion order; a
\* table in the shape of DEFAULT_CATEGORIES with an upper-case entry, an
\* empty entry and an extension claimed by two categories
Categories ==
    << [name |-> Images, exts |-> {ExtJpg, <<>>}],
       [name |-> Documents, exts |-> {ExtPdf, ExtJpgUpper}],
       [name |-> Others, exts |-> {}] >>

\* build_ext_index: the categories in insertion order, an extension kept
\* for the first category that lists it in any letter case, empty ones
\* skipped
RECURSIVE BuildFrom(_, _, _)
BuildFrom(categories, k, idx) ==
    IF k > Len(categories) THEN idx
    ELSE LET cat == categories[k]
             fresh == {Lower(e) : e \in {x \in cat.exts : x # <<>>}} \ DOMAIN idx
         IN  BuildFrom(categories, k + 1,
                 [e \in DOMAIN idx \cup fresh |->
                     IF e \in DOMAIN idx THEN idx[e] ELSE cat.name])

\* a build_ext_index in which the last category that lists an extension wins
build_ext_index_lastWins(categories) ==
    BuildFrom([k \in 1..Len(categories) |-> categories[Len(categories) + 1 - k]], 1, <<>>)

build_ext_index(categories) == BuildFrom(categories, 1, <<>>)

\* the category tables a caller may pass: Images and Documents in either
\* insertion order, each with up to MaxExts extensions in lower or upper
\* case or empty, and the catch-all Others with no extension
Tables ==
    LET exts == {x \in SUBSET {ExtJpg, ExtJpgUpper, ExtPdf, <<>>} : Cardinality(x) <= MaxExts}
    IN  UNION {{ << [name |-> Images, exts |-> a], [name |-> Documents, exts |-> b],
                    [name |-> Others, exts |-> {}] >>,
                 << [name |-> Documents, exts |-> b], [name |-> Images, exts |-> a],
                    [name |-> Others, exts |-> {}] >> } : a \in exts, b \in exts}

(* --------------------------- conflict resolver ------------------------- *)
\* unique_path: the first of path, "stem (1)suffix", "stem (2)suffix", ...
\* that does not exist
RECURSIVE UniqueFrom(_, _, _, _)
UniqueFrom(fs, path, candidate, i) ==
    IF Exists(fs, candidate)
    THEN UniqueFrom(fs, path,
             Join(Parent(path),
                  Stem(Name(path)) \o <<" ", "(">> \o Itoa(i) \o <<")">> \o Suffix(Name(path))),
             i + 1)
    ELSE candidate

\* a unique_path whose counter starts at 2
unique_path_from2(fs, path) == UniqueFrom(fs, path, path, 2)

\* a unique_path that stops at "stem (1)suffix" whether or not it exists
unique_path_firstOnly(fs, path) ==
    IF Exists(fs, path)
    THEN Join(Parent(path), Stem(Name(path)) \o <<" ", "(", "1", ")">> \o Suffix(Name(path)))
    ELSE path

unique_path(fs, path) == UniqueFrom(fs, path, path, 1)

Policies == {"rename", "skip", "overwrite"}

\* a resolve_conflict whose skip branch hands back the destination
resolve_conflict_skipReturnsPath(fs, destination, conflict_policy, unlinkFails) ==
    IF ~Exists(fs, destination) \/ conflict_policy = "skip"
      THEN [kind |-> "path", path |-> destination, fs |-> fs]
    ELSE IF conflict_policy = "overwrite"
      THEN [kind |-> "path", path |-> destination,
            fs |-> IF IsFile(fs, destination) /\ ~unlinkFails
                   THEN Unlink(fs, destination) ELSE fs]
    ELSE [kind |-> "path", path |-> unique_path(fs, destination), fs |-> fs]

\* a resolve_conflict whose overwrite branch renames instead
resolve_conflict_overwriteRenames(fs, destination, conflict_policy, unlinkFails) ==
    IF ~Exists(fs, destination)
      THEN [kind |-> "path", path |-> destination, fs |-> fs]
    ELSE IF conflict_policy = "skip"
      THEN [kind |-> "none", path |-> destination, fs |-> fs]
    ELSE [kind |-> "path", path |-> unique_path(fs, destination), fs |-> fs]

\* resolve_conflict: the final destination ("path"), no destination
\* ("none") or a ValueError ("raise"), with the file system it leaves;
\* unlinkFails says that the removal under overwrite raises OSError
resolve_conflict(fs, destination, conflict_policy, unlinkFails) ==
    IF ~Exists(fs, destination)
      THEN [kind |-> "path", path |-> destination, fs |-> fs]
    ELSE IF conflict_policy = "skip"
      THEN [kind |-> "none", path |-> destination, fs |-> fs]
    ELSE IF conflict_policy = "overwrite"
      THEN [kind |-> "path", path |-> destination,
            fs |-> IF IsFile(fs, destination) /\ ~unlinkFails
                   THEN Unlink(fs, destination) ELSE fs]
    ELSE IF conflict_policy = "rename"
      THEN [kind |-> "path", path |-> unique_path(fs, destination), fs |-> fs]
    ELSE [kind |-> "raise", path |-> destination, fs |-> fs]

(* ------------------------------ undo journal --------------------------- *)
\* the line log_undo_operation writes: ACTION|source|destination
UndoLine(action, src, dst) ==
    ActionUpper(action) \o <<"|">> \o PathStr(src) \o <<"|">> \o PathStr(dst) \o <<"\n">>

\* log_undo_operation: the line is appended and the file created when
\* absent; an IOError is swallowed and leaves the journal as it was
log_undo_operation(journal, action, src, dst, fails) ==
    IF fails THEN journal
    ELSE [exists |-> TRUE, text |-> journal.text \o UndoLine(action, src, dst)]

\* a clear_undo_log that leaves the journal file in place
clear_undo_log_keeps(journal, fails) == journal

\* clear_undo_log: the journal file is removed; an OSError is swallowed
clear_undo_log(journal, fails) ==
    IF journal.exists /\ ~fails THEN [exists |-> FALSE, text |-> <<>>] ELSE journal

(* ----------------------------- transfer -------------------------------- *)
\* a do_transfer that does not return early in a dry run
do_transfer_ignoresDryRun(fs, journal, src, dst, action, dry_run, fault) ==
    The({ IF (fault = "mkdir" /\ ~IsDir(fs, Parent(dst))) \/ ~mk.ok
            THEN [ok |-> FALSE, fs |-> fs, journal |-> journal, hit |-> fault = "mkdir"]
          ELSE The({ IF fault = "transfer" \/ ~tr.ok
                       THEN [ok |-> FALSE, fs |-> mk.fs, journal |-> journal,
                             hit |-> fault = "transfer"]
                     ELSE [ok |-> TRUE, fs |-> tr.fs,
                           journal |-> log_undo_operation(journal, action, src, dst,
                                                          fault = "log"),
                           hit |-> fault = "log"]
                     : tr \in {IF action = "move" THEN Move(mk.fs, src, dst)
                                                 ELSE Copy2(mk.fs, src, dst)} })
          : mk \in {Mkdirs(fs, Parent(dst))} })

\* do_transfer: the parent directories, then nothing more in a dry run,
\* else the move or copy and the undo record; every exception gives False
\* (fault names the call that fails, hit tells that this call was reached;
\* mkdir can fail where a directory has to be made)
do_transfer(fs, journal, src, dst, action, dry_run, fault) ==
    The({ IF (fault = "mkdir" /\ ~IsDir(fs, Parent(dst))) \/ ~mk.ok
            THEN [ok |-> FALSE, fs |-> fs, journal |-> journal, hit |-> fault = "mkdir"]
          ELSE IF dry_run
            THEN [ok |-> TRUE, fs |-> mk.fs, journal |-> journal, hit |-> FALSE]
          ELSE The({ IF fault = "transfer" \/ ~tr.ok
                       THEN [ok |-> FALSE, fs |-> mk.fs, journal |-> journal,
                             hit |-> fault = "transfer"]
                     ELSE [ok |-> TRUE, fs |-> tr.fs,
                           journal |-> log_undo_operation(journal, action, src, dst,
                                                          fault = "log"),
                           hit |-> fault = "log"]
                     : tr \in {IF action = "move" THEN Move(mk.fs, src, dst)
                                                 ELSE Copy2(mk.fs, src, dst)} })
          : mk \in {Mkdirs(fs, Parent(dst))} })

(* ----------------------------- classifiers ----------------------------- *)
MonthName(m) ==
    << <<"J", "a", "n", "u", "a", "r", "y">>,
       <<"F", "e", "b", "r", "u", "a", "r", "y">>,
       <<"M", "a", "r", "c", "h">>,
       <<"A", "p", "r", "i", "l">>,
       <<"M", "a", "y">>,
       <<"J", "u", "n", "e">>,
       <<"J", "u", "l", "y">>,
       <<"A", "u", "g", "u", "s", "t">>,
       <<"S", "e", "p", "t", "e", "m", "b", "e", "r">>,
       <<"O", "c", "t", "o", "b", "e", "r">>,
       <<"N", "o", "v", "e", "m", "b", "e", "r">>,
       <<"D", "e", "c", "e", "m", "b", "e", "r">> >>[m]

SmallCat == <<"S", "m", "a", "l", "l", " ", "(", "U", "n", "d", "e", "r", " ", "1", "M", "B", ")">>
MediumCat == <<"M", "e", "d", "i", "u", "m", " ", "(", "1", "-", "1", "0", "0", "M", "B", ")">>
LargeCat == <<"L", "a", "r", "g", "e", " ", "(", "O", "v", "e", "r", " ", "1", "0", "0", "M", "B", ")">>
Hash == <<"#">>
MiB == 1048576

\* a type folder looked up without lower-casing the suffix
TypeDir_noLower(file, ext_index) ==
    LET e == Suffix(Name(file))
    IN  << IF e \in DOMAIN ext_index THEN ext_index[e] ELSE Others >>

\* the folder below dest_root that each organizer computes for a file
TypeDir(file, ext_index) ==
    LET e == Lower(Suffix(Name(file)))
    IN  << IF e \in DOMAIN ext_index THEN ext_index[e] ELSE Others >>
NameDir(file) == << Stem(Name(file)) >>
DateDir(date) == << Itoa(date.year), Pad2(date.month) \o <<"-">> \o MonthName(date.month) >>
DayDir(date) == << Itoa(date.year), Pad2(date.month), Pad2(date.day) >>
\* a size folder whose limits belong to the smaller class
SizeDir_limitsInclusive(size) ==
    << IF size <= 1 * MiB THEN SmallCat
       ELSE IF size <= 100 * MiB THEN MediumCat
       ELSE LargeCat >>

\* size_mb = st_size / (1024 * 1024) is exact in floating point for sizes
\* below 2^53, so size_mb < k is st_size < k * 1048576
SizeDir(size) ==
    << IF size < 1 * MiB THEN SmallCat
       ELSE IF size < 100 * MiB THEN MediumCat
       ELSE LargeCat >>
FirstLetterDir(file) ==
    LET first_letter == UpperChar(Stem(Name(file))[1])
    IN  << IF IsAlpha(first_letter) THEN first_letter ELSE Hash >>

Modes == {"type", "name", "date", "day", "size", "first_letter"}
StatModes == {"date", "day", "size"}

\* dest_file of the organizer of the mode: dest_root / folder / file.name
DestFile(fs, file, dest_root, mode, ext_index) ==
    LET dir == CASE mode = "type" -> TypeDir(file, ext_index)
                 [] mode = "name" -> NameDir(file)
                 [] mode = "date" -> DateDir(fs[file].mtime)
                 [] mode = "day" -> DayDir(fs[file].mtime)
                 [] mode = "size" -> SizeDir(fs[file].size)
                 [] mode = "first_letter" -> FirstLetterDir(file)
    IN  Join(dest_root \o dir, Name(file))

\* organize_by_<mode>(file, dest_root, ...): the outcome "True", "False",
\* "None" or "Raise" (an exception leaves the organizer), the file system
\* and journal it leaves, and the destinations it computed.  file.stat()
\* raises for a missing file or on fault "stat"; the date, day and size
\* organizers turn every exception into False, the others let it through.
\* fault names the operating-system call that fails ("none": no call
\* fails), hit tells that the run reached that call.  Path.exists() in
\* resolve_conflict lets an OSError other than "not found" through
\* (fault "exists": a destination folder that may not be searched)
Organize(fs, journal, file, dest_root, mode, ext_index, action, conflict_policy, dry_run, fault) ==
    LET none == <<>>
        statFails == mode \in StatModes /\ (fault = "stat" \/ ~Exists(fs, file))
        resolved(dest_file, rc) ==
            IF rc.kind = "raise"
              THEN [result |-> IF mode \in StatModes THEN "False" ELSE "Raise",
                    fs |-> rc.fs, journal |-> journal,
                    dest_file |-> dest_file, final_dest |-> none,
                    hit |-> fault = "exists"]
            ELSE IF rc.kind = "none"
              THEN [result |-> "None", fs |-> rc.fs, journal |-> journal,
                    dest_file |-> dest_file, final_dest |-> none, hit |-> FALSE]
            ELSE The({ [result |-> IF tr.ok THEN "True" ELSE "False",
                        fs |-> tr.fs, journal |-> tr.journal,
                        dest_file |-> dest_file, final_dest |-> rc.path,
                        hit |-> tr.hit \/ (/\ fault = "unlink"
                                           /\ conflict_policy = "overwrite"
                                           /\ IsFile(fs, dest_file))]
                       : tr \in {do_transfer(rc.fs, journal, file, rc.path, action,
                                             dry_run, fault)} })
    IN  IF statFails
          THEN [result |-> "False", fs |-> fs, journal |-> journal,
                dest_file |-> none, final_dest |-> none, hit |-> fault = "stat"]
        ELSE The({ The({ resolved(dest_file, rc)
                         : rc \in {IF fault = "exists"
                                    THEN [kind |-> "raise", path |-> dest_file, fs |-> fs]
                                    ELSE resolve_conflict(fs, dest_file, conflict_policy,
                                                          fault = "unlink")} })
                   : dest_file \in {DestFile(fs, file, dest_root, mode, ext_index)} })

(* ------------------------------ listing -------------------------------- *)
\* a list_files that excludes only the direct children of exclude_dir
list_files_directChildren(fs, source, recursive, exclude_dir) ==
    LET pattern == IF recursive
                   THEN {p \in DOMAIN fs : IsUnder(p, source) /\ p # source}
                   ELSE {p \in DOMAIN fs : Len(p) > 0 /\ Parent(p) = source}
    IN  {p \in pattern : IsFile(fs, p) /\ exclude_dir # Parent(p)}

\* list_files: the regular files among the entries of source (all depths
\* when recursive, the direct children otherwise) whose parents do not
\* include exclude_dir
list_files(fs, source, recursive, exclude_dir) ==
    LET pattern == IF recursive
                   THEN {p \in DOMAIN fs : IsUnder(p, source) /\ p # source}
                   ELSE {p \in DOMAIN fs : Len(p) > 0 /\ Parent(p) = source}
    IN  {p \in pattern : IsFile(fs, p) /\ ~(exclude_dir \in Parents(p))}

(* ------------------------------- inputs -------------------------------- *)
Source == << <<"s">> >>
Dest == << <<"s">>, <<"o">> >>
Sub == <<"s", "u", "b">>

Date1 == [year |-> 2024, month |-> 3, day |-> 5]
Date2 == [year |-> 2023, month |-> 11, day |-> 20]

\* the files that may be present under the source directory at start: a
\* mapped extension, the same name in a subfolder, an upper-case extension
\* after a digit, a name without extension that starts with U+01F0
Pool ==
    { [path |-> Join(Source, <<"a", ".", "j", "p", "g">>),
       node |-> FileNode(<<"c", "1">>, Date1, 5)],
      [path |-> Join(Join(Source, Sub), <<"a", ".", "j", "p", "g">>),
       node |-> FileNode(<<"c", "2">>, Date1, 7)],
      [path |-> Join(Source, <<"1", ".", "P", "D", "F">>),
       node |-> FileNode(<<"c", "3">>, Date2, 1 * MiB)],
      [path |-> Join(Source, <<JCaron, "x">>),
       node |-> FileNode(<<"c", "4">>, Date2, 100 * MiB)] }

\* a file whose name holds the field delimiter of the journal
PipeFile ==
    [path |-> Join(Source, <<"p", "|", "d">>), node |-> FileNode(<<"c", "5">>, Date1, 9)]

\* a file left at the path by an earlier run, its content unlike that of
\* every other file
OldNode(path) == FileNode(<<"o", "l", "d", ":">> \o PathStr(path), Date2, 1)

\* the file system that holds the entries and the directories above them
MakeFs(entries) ==
    LET paths == {e.path : e \in entries}
        dirs == (UNION {Prefixes(Parent(q)) : q \in paths \cup {Join(Source, <<"x">>)}}) \ paths
    IN  [q \in paths \cup dirs |->
            IF q \in paths THEN (CHOOSE e \in entries : e.path = q).node ELSE DirNode]

\* the sequences that enumerate the set S once each, the orders in which
\* the directory scan may deliver the files
Orders(S) ==
    {f \in [1..Cardinality(S) -> S] : \A i, j \in 1..Cardinality(S) : f[i] = f[j] => i = j}

\* the mode and conflict_policy strings a caller may pass: the known ones
\* and one that is none of them
AnyModes == Modes \cup {"other"}
AnyPolicies == Policies \cup {"other"}

(* -------------------------------- state -------------------------------- *)
VARIABLES
    fs,        \* the file system
    journal,   \* undo.log: whether it exists, and its text
    cfg,       \* the keyword arguments of process_directory
    pc,        \* where the caller, process_directory or perform_undo stands
    files,     \* process_directory: the enumerated files
    idx,       \* process_directory: the index of the loop
    stats,     \* process_directory: total, processed, succeeded, failed, skipped
    cancel,    \* the cancel_event flag
    progress,  \* the calls of on_progress so far
    outcomes,  \* per processed file: what the organizer computed and found
    fs0,       \* the file system when process_directory was called
    cancelAt,  \* the number of iterations begun when the flag was set, -1 before
    nFaults,   \* the operating-system calls that have failed so far
    undo,      \* perform_undo: lines, position and counters
    gui        \* the main window: its controls, its two workers, their signals

vars == <<fs, journal, cfg, pc, files, idx, stats, cancel, progress, outcomes,
          fs0, cancelAt, nFaults, undo, gui>>

\* handled: the lines in the order the replay has taken them
NoUndo == [lines |-> <<>>, idx |-> 0, total |-> 0, succeeded |-> 0, failed |-> 0,
           progress |-> <<>>, handled |-> <<>>]

\* a dict as the set of its items
Dict(rec) == {<<k, rec[k]>> : k \in DOMAIN rec}

\* the main window after construction: run controls enabled, no worker, no
\* finished signal received
NoGui == [controls |-> TRUE, organizer_worker |-> "none", undo_worker |-> "none",
          finished |-> [emitted |-> FALSE, stats |-> {}, cancelled |-> FALSE],
          runs |-> 0, undos |-> 0]
ZeroStats == [total |-> 0, processed |-> 0, succeeded |-> 0, failed |-> 0, skipped |-> 0]

\* the entries that may exist under the destination at start: at the place
\* an organizer run of the same mode computes for a source file, a regular
\* file or a directory, and a regular file under the first renamed name
PreCandidatesIn(src, mode, categories) ==
    IF mode \notin Modes THEN {} ELSE
    LET sfs == MakeFs(src)
        at(e) == DestFile(sfs, e.path, Dest, mode, build_ext_index(categories))
        renamed(e) == unique_path(MakeFs({[path |-> at(e), node |-> DirNode]}), at(e))
    IN  UNION {{ [path |-> at(e), node |-> OldNode(at(e))],
                 [path |-> at(e), node |-> DirNode],
                 [path |-> renamed(e), node |-> OldNode(renamed(e))] } : e \in src}

PreCandidates(src, mode) == PreCandidatesIn(src, mode, Categories)

\* the name ends in " (1)" before its suffix
IsRenamed(path) ==
    LET st == Stem(Name(path))
    IN  Len(st) > 4 /\ SubSeq(st, Len(st) - 3, Len(st)) = <<" ", "(", "1", ")">>

\* the state when the caller is about to start: files of the pool under
\* the source, entries left under the destination, keyword arguments with
\* a mode, a policy and a category table of the given sets, no journal
InitOf(pool, modes, policies, tables) ==
    /\ \E src \in SUBSET pool, mode \in modes, action \in {"move", "copy"},
          policy \in policies, dry \in BOOLEAN, rec \in BOOLEAN, categories \in tables :
          /\ Cardinality(src) <= MaxSrcFiles
          \* a dry run returns before the action is read
          /\ dry => action = "move"
          /\ cfg = [source |-> Source, dest |-> Dest, mode |-> mode, action |-> action,
                    conflict_policy |-> policy, dry_run |-> dry, recursive |-> rec,
                    categories |-> categories]
          /\ \E pre \in SUBSET PreCandidatesIn(src, mode, categories) :
                /\ Cardinality(pre) <= MaxPreExisting
                /\ \A e1, e2 \in pre : e1.path = e2.path => e1 = e2
                /\ \A e \in pre : IsRenamed(e.path) =>
                       \E b \in pre : b.node.kind = "file" /\ unique_path(MakeFs({b}), b.path) = e.path
                /\ fs = MakeFs(src \cup pre)
    /\ journal = [exists |-> FALSE, text |-> <<>>]
    /\ pc = "idle"
    /\ files = <<>>
    /\ idx = 0
    /\ stats = ZeroStats
    /\ cancel = FALSE
    /\ progress = <<>>
    /\ outcomes = <<>>
    /\ fs0 = fs
    /\ cancelAt = -1
    /\ nFaults = 0
    /\ undo = NoUndo
    /\ gui = NoGui

\* the category table is the one in the shape of DEFAULT_CATEGORIES
InitWith(pool, modes, policies) == InitOf(pool, modes, policies, {Categories})

\* the arguments are of the closed sets, as the main window passes them
Init == InitWith(Pool, Modes, Policies)

\* any mode and policy string, and a file name with the journal delimiter
InitAny == InitWith(Pool \cup {PipeFile}, AnyModes, AnyPolicies)

(* ------------------------ process_directory ---------------------------- *)
\* process_directory up to the loop: the organizer of the mode, the file
\* listing with the destination excluded, the counters
StartRun ==
    /\ pc = "idle"
    /\ IF cfg.mode \notin Modes
       THEN \* ORGANIZERS.get(mode) is None: ValueError
            /\ pc' = "raised"
            /\ files' = <<>>
            /\ stats' = ZeroStats
            /\ idx' = 0
       ELSE /\ \E order \in Orders(list_files(fs, cfg.source, cfg.recursive, cfg.dest)) :
                  /\ files' = order
                  /\ stats' = [ZeroStats EXCEPT !.total = Len(order)]
            /\ idx' = 1
            /\ pc' = "check"
    /\ fs0' = fs
    /\ outcomes' = <<>>
    /\ progress' = <<>>
    /\ UNCHANGED <<fs, journal, cfg, cancel, cancelAt, nFaults, undo, gui>>

\* a loop head that does not look at cancel_event
LoopCheck_ignoresCancel ==
    /\ pc = "check"
    /\ pc' = IF idx > Len(files) THEN "returned" ELSE "body"
    /\ UNCHANGED <<fs, journal, cfg, files, idx, stats, cancel, progress, outcomes,
                   fs0, cancelAt, nFaults, undo, gui>>

\* the head of the loop: the end of the list or a set cancel_event ends the
\* loop and process_directory returns the counters
LoopCheck ==
    /\ pc = "check"
    /\ pc' = IF idx > Len(files) \/ cancel THEN "returned" ELSE "body"
    /\ UNCHANGED <<fs, journal, cfg, files, idx, stats, cancel, progress, outcomes,
                   fs0, cancelAt, nFaults, undo, gui>>

\* counters that leave a skipped file out of skipped
Counted_skipNotCounted(st, result) ==
    [st EXCEPT !.processed = @ + 1,
               !.succeeded = IF result = "True" THEN @ + 1 ELSE @,
               !.failed = IF result = "False" THEN @ + 1 ELSE @]

\* the counters after a file with the given outcome: processed, and one of
\* skipped (None), succeeded (True) and failed (False)
Counted(st, result) ==
    [st EXCEPT !.processed = @ + 1,
               !.skipped = IF result = "None" THEN @ + 1 ELSE @,
               !.succeeded = IF result = "True" THEN @ + 1 ELSE @,
               !.failed = IF result = "False" THEN @ + 1 ELSE @]

\* an on_progress call that gets the index of enumerate(files) from 0
on_progress_indexFrom0(idx_, total, item, result) ==
    [i |-> idx_ - 1, total |-> total, file |-> item, result |-> result]

\* kwargs['on_progress'](idx, total, item, result): the call as the callback
\* receives it
on_progress(idx_, total, item, result) ==
    [i |-> idx_, total |-> total, file |-> item, result |-> result]

\* one loop body: the organizer on the file, the counters, on_progress;
\* fault names the operating-system call that fails in it.  The on_progress
\* of OrganizerWorker raises InterruptedError when cancel_event is set, and
\* the exception leaves process_directory
Body(fault) ==
    /\ pc = "body"
    /\ \E item \in {files[idx]},
          ext_index \in {IF cfg.mode = "type" THEN build_ext_index(cfg.categories) ELSE <<>>} :
       \E r \in {Organize(fs, journal, item, cfg.dest, cfg.mode, ext_index,
                          cfg.action, cfg.conflict_policy, cfg.dry_run, fault)} :
           /\ fault # "none" => r.hit /\ nFaults < MaxFaults
           /\ nFaults' = IF fault = "none" THEN nFaults ELSE nFaults + 1
           /\ fs' = r.fs
           /\ journal' = r.journal
           /\ outcomes' = Append(outcomes,
                  [file |-> item, dest_file |-> r.dest_file,
                   final_dest |-> r.final_dest, result |-> r.result,
                   conflict |-> IF r.dest_file = <<>> THEN "unknown"
                                ELSE IF IsFile(fs, r.dest_file) THEN "file"
                                ELSE IF IsDir(fs, r.dest_file) THEN "dir"
                                ELSE "free",
                   fault |-> fault])
           /\ IF r.result = "Raise"
              THEN /\ pc' = "raised"
                   /\ UNCHANGED <<stats, progress, idx>>
              ELSE /\ stats' = Counted(stats, r.result)
                   /\ IF gui.organizer_worker = "running" /\ cancel
                      THEN /\ pc' = "interrupted"
                           /\ UNCHANGED <<progress, idx>>
                      ELSE /\ progress' = Append(progress,
                                  on_progress(idx, stats.total, item, r.result))
                           /\ idx' = idx + 1
                           /\ pc' = "check"
    /\ UNCHANGED <<cfg, files, cancel, fs0, cancelAt, undo, gui>>

\* the loop body when no operating-system call fails
LoopBody == Body("none")

\* the loop body with one failing call: file.stat(), destination.exists()
\* and the unlink of resolve_conflict, mkdir, the move or copy, the write
\* of the undo record
LoopBodyFault ==
    \E fault \in {"stat", "exists", "unlink", "mkdir", "transfer", "log"} : Body(fault)

\* another thread sets cancel_event while process_directory runs
Cancel ==
    /\ pc \in {"check", "body"}
    /\ ~cancel
    /\ cancel' = TRUE
    /\ cancelAt' = IF pc = "body" THEN idx ELSE idx - 1
    /\ UNCHANGED <<fs, journal, cfg, pc, files, idx, stats, progress, outcomes,
                   fs0, nFaults, undo, gui>>

(* ----------------------------- perform_undo ---------------------------- *)
\* perform_undo up to its loop: without a journal it reports (0, 0) and
\* returns zero counters, else it reads the lines
Begin ==
    undo' = IF ~journal.exists
            THEN [NoUndo EXCEPT !.progress = << <<0, 0>> >>]
            ELSE [NoUndo EXCEPT !.lines = ReadLines(journal.text),
                                !.total = Len(ReadLines(journal.text)),
                                !.idx = 1]

\* perform_undo called when no run and no replay is under way
UndoStart ==
    /\ pc \in {"idle", "returned", "undone"}
    /\ gui.organizer_worker = "none" /\ gui.undo_worker = "none"
    /\ Begin
    /\ pc' = IF journal.exists THEN "undo" ELSE "undone"
    /\ UNCHANGED <<fs, journal, cfg, files, idx, stats, cancel, progress, outcomes,
                   fs0, cancelAt, nFaults, gui>>

\* a replay that takes the lines in the order they were written
UndoLineAt_forward(lines, i) == lines[i]

\* the journal line perform_undo handles at position i: the lines reversed
UndoLineAt(lines, i) == lines[Len(lines) + 1 - i]

\* a replay step that counts a missing destination as failed
Replay_missingFails(fault) ==
    /\ undo.idx <= undo.total
    /\ \E line \in {UndoLineAt(undo.lines, undo.idx)} :
       \E parts \in {Split(Strip(line), "|")} :
       LET original_src == ParsePath(parts[2])
           final_dst == ParsePath(parts[3])
           mv == Move(fs, final_dst, original_src)
           step(u) == [u EXCEPT !.idx = @ + 1,
                                !.progress = Append(@, <<undo.idx, undo.total>>),
                                !.handled = Append(@, line)]
       IN  IF Len(parts) # 3
           THEN /\ fault = "none"
                /\ undo' = step([undo EXCEPT !.failed = @ + 1])
                /\ fs' = fs
           ELSE IF ~Exists(fs, final_dst)
           THEN /\ fault = "none"
                /\ undo' = step([undo EXCEPT !.failed = @ + 1])
                /\ fs' = fs
           ELSE IF fault = "move" \/ ~mv.ok
           THEN /\ undo' = step([undo EXCEPT !.failed = @ + 1])
                /\ fs' = fs
           ELSE /\ undo' = step([undo EXCEPT !.succeeded = @ + 1])
                /\ fs' = mv.fs
    /\ fault # "none" => nFaults < MaxFaults
    /\ nFaults' = IF fault = "none" THEN nFaults ELSE nFaults + 1

\* one line of the replay: a line that does not split into three fields or
\* a failing move counts as failed, a missing destination counts nowhere;
\* fault = "move" makes shutil.move raise
Replay(fault) ==
    /\ undo.idx <= undo.total
    /\ \E line \in {UndoLineAt(undo.lines, undo.idx)} :
       \E parts \in {Split(Strip(line), "|")} :
       LET original_src == ParsePath(parts[2])
           final_dst == ParsePath(parts[3])
           mv == Move(fs, final_dst, original_src)
           step(u) == [u EXCEPT !.idx = @ + 1,
                                !.progress = Append(@, <<undo.idx, undo.total>>),
                                !.handled = Append(@, line)]
       IN  IF Len(parts) # 3
           THEN /\ fault = "none"
                /\ undo' = step([undo EXCEPT !.failed = @ + 1])
                /\ fs' = fs
           ELSE IF ~Exists(fs, final_dst)
           THEN /\ fault = "none"
                /\ undo' = step(undo)
                /\ fs' = fs
           ELSE IF fault = "move" \/ ~mv.ok
           THEN /\ undo' = step([undo EXCEPT !.failed = @ + 1])
                /\ fs' = fs
           ELSE /\ undo' = step([undo EXCEPT !.succeeded = @ + 1])
                /\ fs' = mv.fs
    /\ fault # "none" => nFaults < MaxFaults
    /\ nFaults' = IF fault = "none" THEN nFaults ELSE nFaults + 1

ReplayLine(fault) ==
    /\ pc = "undo"
    /\ Replay(fault)
    /\ UNCHANGED <<journal, cfg, pc, files, idx, stats, cancel, progress, outcomes,
                   fs0, cancelAt, gui>>

UndoStep == ReplayLine("none")
UndoStepFault == ReplayLine("move")

\* after the last line: clear_undo_log; fails makes the unlink of the
\* journal raise
Clear(fails) ==
    /\ undo.idx > undo.total
    /\ fails => nFaults < MaxFaults /\ journal.exists
    /\ nFaults' = IF fails THEN nFaults + 1 ELSE nFaults
    /\ journal' = clear_undo_log(journal, fails)

\* after the last line: clear_undo_log and the counters are returned
FinishUndo(fails) ==
    /\ pc = "undo"
    /\ Clear(fails)
    /\ pc' = "undone"
    /\ UNCHANGED <<fs, cfg, files, idx, stats, cancel, progress, outcomes,
                   fs0, cancelAt, undo, gui>>

UndoFinish == FinishUndo(FALSE)
UndoFinishFault == FinishUndo(TRUE)

\* no operating-system call fails; cancel_event may be set at any moment
Next ==
    \/ StartRun
    \/ LoopCheck
    \/ LoopBody
    \/ Cancel
    \/ UndoStart
    \/ UndoStep
    \/ UndoFinish

Spec == Init /\ [][Next]_vars

\* operating-system calls may fail, at most MaxFaults of them; no cancel
NextFaults ==
    \/ StartRun
    \/ LoopCheck
    \/ LoopBody
    \/ LoopBodyFault
    \/ UndoStart
    \/ UndoStep
    \/ UndoStepFault
    \/ UndoFinish
    \/ UndoFinishFault

SpecFaults == Init /\ [][NextFaults]_vars

\* the run meets no failing call; in perform_undo the move of a line and
\* the removal of the journal may fail, at most MaxFaults times
NextUndoFaults ==
    \/ StartRun
    \/ LoopCheck
    \/ LoopBody
    \/ UndoStart
    \/ UndoStep
    \/ UndoStepFault
    \/ UndoFinish
    \/ UndoFinishFault

SpecUndoFaults == Init /\ [][NextUndoFaults]_vars

\* any mode and policy string, file names with the journal delimiter; no
\* operating-system call fails, cancel_event is never set
NextAny ==
    \/ StartRun
    \/ LoopCheck
    \/ LoopBody
    \/ UndoStart
    \/ UndoStep
    \/ UndoFinish

SpecAny == InitAny /\ [][NextAny]_vars

\* st_size values at and next to the limits of the size classes
Sizes == <<0, MiB - 1, MiB, MiB + 1, 100 * MiB - 1, 100 * MiB, 100 * MiB + 1>>

\* one file per size of Sizes
SizePool ==
    { [path |-> Join(Source, <<"z">> \o Itoa(k)),
       node |-> FileNode(<<"z">> \o Itoa(k), Date1, Sizes[k])] : k \in 1..Len(Sizes) }

\* runs in mode size over files of SizePool
InitSize == InitOf(SizePool, {"size"}, Policies, {Categories})

NextSize ==
    \/ StartRun
    \/ LoopCheck
    \/ LoopBody

SpecSize == InitSize /\ [][NextSize]_vars

\* the files directly in the source that have an extension, one in lower
\* and one in upper case
FlatPool == {e \in Pool : Parent(e.path) = Source /\ Suffix(Name(e.path)) # <<>>}

\* runs in mode type under policy rename with any category table of Tables
InitIndex == InitOf(FlatPool, {"type"}, {"rename"}, Tables)

NextIndex ==
    \/ StartRun
    \/ LoopCheck
    \/ LoopBody

SpecIndex == InitIndex /\ [][NextIndex]_vars

\* the content a file gets when it is changed after the run
EditedContent(path) == <<"e", "d", "i", "t", ":">> \o PathStr(path)

\* between the return of process_directory and perform_undo the owner of
\* the files writes new content into an enumerated file that is still at
\* its source path
EditSource ==
    /\ pc = "returned"
    /\ Cardinality({q \in DOMAIN fs : fs[q].content = EditedContent(q)}) < MaxEdits
    /\ \E i \in 1..Len(files) :
          /\ IsFile(fs, files[i])
          /\ fs[files[i]].content # EditedContent(files[i])
          /\ fs' = [fs EXCEPT ![files[i]].content = EditedContent(files[i])]
    /\ UNCHANGED <<journal, cfg, pc, files, idx, stats, cancel, progress, outcomes,
                   fs0, cancelAt, nFaults, undo, gui>>

\* a run, then possibly a change of a source file, then the replay; no
\* operating-system call fails, cancel_event is never set
NextEdit ==
    \/ StartRun
    \/ LoopCheck
    \/ LoopBody
    \/ EditSource
    \/ UndoStart
    \/ UndoStep
    \/ UndoFinish

SpecEdit == Init /\ [][NextEdit]_vars

(* ------------------------------ main window ---------------------------- *)
\* run_organizer, reached by the run button and the run action while they
\* are enabled: the journal is cleared, the run controls are disabled, an
\* OrganizerWorker with a fresh cancel_event is started.  (Replacing the
\* worker object of a thread that still runs ends the program.)
\* limit bounds the runs of a behaviour; fails makes the unlink of the
\* journal in clear_undo_log raise, which clear_undo_log swallows
RunOrganizerWith(limit, fails) ==
    /\ gui.controls
    /\ gui.organizer_worker = "none"
    /\ gui.runs < limit
    /\ pc = "idle"
    /\ fails => nFaults < MaxFaults /\ journal.exists
    /\ nFaults' = IF fails THEN nFaults + 1 ELSE nFaults
    /\ journal' = clear_undo_log(journal, fails)
    /\ cancel' = FALSE
    /\ cancelAt' = -1
    /\ gui' = [gui EXCEPT !.controls = FALSE, !.organizer_worker = "running",
                          !.runs = @ + 1]
    /\ UNCHANGED <<fs, cfg, pc, files, idx, stats, progress, outcomes, fs0, undo>>

RunOrganizer == RunOrganizerWith(MaxRuns, FALSE)

\* OrganizerWorker.run up to the loop of process_directory
WorkerRun ==
    /\ gui.organizer_worker = "running"
    /\ StartRun

\* cancel_organizer: the cancel_event of the worker is set
CancelOrganizer ==
    /\ gui.organizer_worker = "running"
    /\ Cancel

\* OrganizerWorker.run after process_directory: finished(stats, is_set())
\* when it returned, finished({}, False) when an exception left it
WorkerEmit ==
    /\ gui.organizer_worker = "running"
    /\ pc \in {"returned", "interrupted", "raised"}
    /\ gui' = [gui EXCEPT
                 !.organizer_worker = "emitted",
                 !.finished = IF pc = "returned"
                              THEN [emitted |-> TRUE, stats |-> Dict(stats),
                                    cancelled |-> cancel]
                              ELSE [emitted |-> TRUE, stats |-> {}, cancelled |-> FALSE]]
    /\ UNCHANGED <<fs, journal, cfg, pc, files, idx, stats, cancel, progress, outcomes,
                   fs0, cancelAt, nFaults, undo>>

\* on_worker_finished: the worker is dropped, the run controls are enabled
OnWorkerFinished ==
    /\ gui.organizer_worker = "emitted"
    /\ gui' = [gui EXCEPT !.organizer_worker = "none", !.controls = TRUE]
    /\ pc' = "idle"
    /\ UNCHANGED <<fs, journal, cfg, files, idx, stats, cancel, progress, outcomes,
                   fs0, cancelAt, nFaults, undo>>

\* undo_operation, reached by the undo action of the tool bar, which no
\* code disables: the run controls are disabled, an UndoWorker is started
UndoOperation ==
    /\ gui.undo_worker = "none"
    /\ gui.undos < MaxUndos
    /\ gui' = [gui EXCEPT !.controls = FALSE, !.undo_worker = "started",
                          !.undos = @ + 1]
    /\ UNCHANGED <<fs, journal, cfg, pc, files, idx, stats, cancel, progress, outcomes,
                   fs0, cancelAt, nFaults, undo>>

\* UndoWorker.run up to the loop of perform_undo; without a journal
\* perform_undo returns at once and finished is emitted
UndoWorkerRun ==
    /\ gui.undo_worker = "started"
    /\ Begin
    /\ gui' = [gui EXCEPT !.undo_worker = IF journal.exists THEN "running" ELSE "emitted"]
    /\ UNCHANGED <<fs, journal, cfg, pc, files, idx, stats, cancel, progress, outcomes,
                   fs0, cancelAt, nFaults>>

\* one line of the replay in the UndoWorker
UndoWorkerStep ==
    /\ gui.undo_worker = "running"
    /\ Replay("none")
    /\ UNCHANGED <<journal, cfg, pc, files, idx, stats, cancel, progress, outcomes,
                   fs0, cancelAt, gui>>

\* the end of perform_undo in the UndoWorker: clear_undo_log, finished
UndoWorkerFinish ==
    /\ gui.undo_worker = "running"
    /\ Clear(FALSE)
    /\ gui' = [gui EXCEPT !.undo_worker = "emitted"]
    /\ UNCHANGED <<fs, cfg, pc, files, idx, stats, cancel, progress, outcomes,
                   fs0, cancelAt, undo>>

\* on_undo_finished: the worker is dropped, the run controls are enabled
OnUndoFinished ==
    /\ gui.undo_worker = "emitted"
    /\ gui' = [gui EXCEPT !.undo_worker = "none", !.controls = TRUE]
    /\ UNCHANGED <<fs, journal, cfg, pc, files, idx, stats, cancel, progress, outcomes,
                   fs0, cancelAt, nFaults, undo>>

\* the main window with its two worker threads; no operating-system call
\* fails
NextGui ==
    \/ RunOrganizer
    \/ WorkerRun
    \/ LoopCheck
    \/ LoopBody
    \/ CancelOrganizer
    \/ WorkerEmit
    \/ OnWorkerFinished
    \/ UndoOperation
    \/ UndoWorkerRun
    \/ UndoWorkerStep
    \/ UndoWorkerFinish
    \/ OnUndoFinished

SpecGui == Init /\ [][NextGui]_vars

\* run_organizer once more than MaxRuns times in a behaviour
RunAgain == RunOrganizerWith(MaxRuns + 1, FALSE)

\* run_organizer when the journal cannot be removed
RunAgainFault == RunOrganizerWith(MaxRuns + 1, TRUE)

\* the undo action triggered while no run is under way
UndoWhenIdle ==
    /\ gui.organizer_worker = "none"
    /\ UndoOperation

\* the main window used for one run after the other in mode type, with a
\* replay between or after the runs; the removal of the journal before a
\* run may fail
InitRuns == InitOf(FlatPool, {"type"}, Policies, {Categories})

NextRuns ==
    \/ RunAgain
    \/ RunAgainFault
    \/ WorkerRun
    \/ LoopCheck
    \/ LoopBody
    \/ WorkerEmit
    \/ OnWorkerFinished
    \/ UndoWhenIdle
    \/ UndoWorkerRun
    \/ UndoWorkerStep
    \/ UndoWorkerFinish
    \/ OnUndoFinished

SpecRuns == InitRuns /\ [][NextRuns]_vars

(* ------------------------------ properties ----------------------------- *)
\* the outcome record of the loop body that has just run
Last(seq) == seq[Len(seq)]

\* name (k).ext next to the path d
Renamed(d, k) ==
    Join(Parent(d), Stem(Name(d)) \o <<" ", "(">> \o Itoa(k) \o <<")">> \o Suffix(Name(d)))

\* the regular files at or below the directory dir
FilesUnder(f, dir) == {p \in DOMAIN f : IsUnder(p, dir) /\ f[p].kind = "file"}

\* the fields of the records of the journal
JournalRecords == [k \in 1..Len(ReadLines(journal.text)) |->
                      Split(Strip(ReadLines(journal.text)[k]), "|")]

\* C1: after a move run (not a dry run) that started with no journal and a
\* following perform_undo, every file the run counted as succeeded is again
\* a regular file at its source path, as it was before the run, and the
\* journal is absent.
C1_MoveThenUndoRestores ==
    (pc = "undone" /\ cfg.action = "move" /\ ~cfg.dry_run) =>
        /\ \A k \in 1..Len(outcomes) :
              outcomes[k].result = "True" =>
                  /\ IsFile(fs, outcomes[k].file)
                  /\ fs[outcomes[k].file] = fs0[outcomes[k].file]
        /\ ~journal.exists

\* C2: in a dry run the parent directory of the destination computed for
\* each processed file exists, no regular file under dest is new or
\* changed, every enumerated source file is at its source path as before,
\* and the journal has received no record.
C2_DryRunTouchesNoFile ==
    cfg.dry_run =>
        /\ \A k \in 1..Len(outcomes) : IsDir(fs, Parent(outcomes[k].dest_file))
        /\ \A p \in FilesUnder(fs, cfg.dest) : p \in DOMAIN fs0 /\ fs0[p] = fs[p]
        /\ \A i \in 1..Len(files) : IsFile(fs, files[i]) /\ fs[files[i]] = fs0[files[i]]
        /\ ~journal.exists /\ journal.text = <<>>

\* C2 witness: a dry run has returned with a file counted as succeeded and
\* with a directory that did not exist before the run.
C2_Witness ==
    /\ cfg.dry_run /\ pc = "returned" /\ stats.succeeded >= 1
    /\ \E p \in DOMAIN fs \ DOMAIN fs0 : IsDir(fs, p)

\* C3: a loop body under policy skip whose computed destination exists
\* leaves the destination node (content, modification time) and the source
\* file as they were, appends nothing to the journal, has outcome None, and
\* counts the file in skipped and not in failed or succeeded.
C3_SkipLeavesBoth ==
    [][ (/\ pc = "body" /\ pc' = "check"
         /\ cfg.conflict_policy = "skip"
         /\ Exists(fs, Last(outcomes').dest_file))
        => LET o == Last(outcomes')
           IN  /\ Exists(fs', o.dest_file) /\ fs'[o.dest_file] = fs[o.dest_file]
               /\ IsFile(fs', o.file) /\ fs'[o.file] = fs[o.file]
               /\ journal' = journal
               /\ o.result = "None"
               /\ stats'.skipped = stats.skipped + 1
               /\ stats'.failed = stats.failed
               /\ stats'.succeeded = stats.succeeded ]_vars

\* C3 witness: under skip a file whose destination was an existing regular
\* file has been processed and counted as skipped.
C3_Witness ==
    /\ cfg.conflict_policy = "skip" /\ stats.skipped >= 1
    /\ \E k \in 1..Len(outcomes) : outcomes[k].conflict = "file" /\ outcomes[k].result = "None"

\* C4: a loop body of a real transfer under policy overwrite whose computed
\* destination is an existing regular file and whose outcome is True leaves
\* at the destination the node of the source file; the previous content is
\* nowhere under dest, and the set of paths under dest is the same (no
\* renamed sibling).
C4_OverwriteReplaces ==
    [][ (/\ pc = "body" /\ pc' = "check"
         /\ cfg.conflict_policy = "overwrite" /\ ~cfg.dry_run
         /\ IsFile(fs, Last(outcomes').dest_file)
         /\ Last(outcomes').result = "True")
        => LET o == Last(outcomes')
           IN  /\ IsFile(fs', o.dest_file)
               /\ fs'[o.dest_file] = fs[o.file]
               /\ \A p \in FilesUnder(fs', cfg.dest) :
                     fs'[p].content # fs[o.dest_file].content
               /\ {p \in DOMAIN fs' : IsUnder(p, cfg.dest)}
                     = {p \in DOMAIN fs : IsUnder(p, cfg.dest)} ]_vars

\* C4 witness: under overwrite, not in a dry run, a file whose destination
\* was an existing regular file has been transferred with outcome True.
C4_Witness ==
    /\ cfg.conflict_policy = "overwrite" /\ ~cfg.dry_run
    /\ \E k \in 1..Len(outcomes) : outcomes[k].conflict = "file" /\ outcomes[k].result = "True"

\* two resolutions of the same existing destination under rename with no
\* file created between them: two files of one dry run
SameDestTwice(j, k) ==
    /\ j < k
    /\ cfg.dry_run /\ cfg.conflict_policy = "rename"
    /\ outcomes[j].dest_file = outcomes[k].dest_file
    /\ outcomes[j].conflict # "free"

\* C5 (as claimed): resolving the same existing destination name.ext twice
\* under rename, no file created in between, yields name (1).ext and then
\* name (2).ext.
C5_RenameTwiceOneThenTwo ==
    \A j, k \in 1..Len(outcomes) :
        SameDestTwice(j, k) =>
            /\ outcomes[j].final_dest = Renamed(outcomes[j].dest_file, 1)
            /\ outcomes[k].final_dest = Renamed(outcomes[k].dest_file, 2)

\* C5 (amended): resolving the same existing destination twice under
\* rename, no file created in between, yields the same path both times:
\* name (1).ext when that path does not exist.
C5_RenameTwiceSamePath ==
    \A j, k \in 1..Len(outcomes) :
        SameDestTwice(j, k) =>
            /\ outcomes[j].final_dest = outcomes[k].final_dest
            /\ ~Exists(fs0, Renamed(outcomes[j].dest_file, 1)) =>
                   outcomes[k].final_dest = Renamed(outcomes[j].dest_file, 1)

\* C5 witness: a dry run under rename has resolved the existing destination
\* a.jpg for two files, both times to "a (1).jpg".
C5_Witness ==
    \E j, k \in 1..Len(outcomes) :
        /\ SameDestTwice(j, k)
        /\ Name(outcomes[j].final_dest) = <<"a", " ", "(", "1", ")", ".", "j", "p", "g">>
        /\ Name(outcomes[k].final_dest) = <<"a", " ", "(", "1", ")", ".", "j", "p", "g">>

\* C6: when cancel_event was set after N iterations had begun, the run
\* returns with processed = N and total = the number of enumerated files;
\* on_progress ran for the first N files only; the other files are still at
\* their source paths as before and their content is nowhere else; every
\* path the run created belongs to the destination of one of the first N
\* files; every journal record names one of the first N files as source.
C6_CancelStopsAtN ==
    (pc = "returned" /\ cancelAt >= 0) =>
        /\ stats.processed = cancelAt
        /\ stats.total = Len(files)
        /\ Len(progress) = cancelAt
        /\ \A i \in 1..Len(progress) : progress[i].i = i /\ progress[i].file = files[i]
        /\ \A i \in (cancelAt + 1)..Len(files) :
              /\ IsFile(fs, files[i]) /\ fs[files[i]] = fs0[files[i]]
              /\ \A p \in DOMAIN fs : fs[p].content = fs0[files[i]].content => p = files[i]
        /\ \A p \in DOMAIN fs \ DOMAIN fs0 :
              \E i \in 1..cancelAt :
                  /\ outcomes[i].final_dest # <<>>
                  /\ IsUnder(outcomes[i].final_dest, p) \/ IsUnder(p, outcomes[i].final_dest)
        /\ \A r \in 1..Len(JournalRecords) :
              \E i \in 1..cancelAt : JournalRecords[r][2] = PathStr(files[i])

\* C6 witness: a run over two files has returned after a cancellation with
\* one file processed and transferred, the other one left.
C6_Witness ==
    /\ pc = "returned" /\ cancel
    /\ stats.total = 2 /\ stats.processed = 1 /\ stats.succeeded = 1
    /\ ~cfg.dry_run

\* the category folder of the files of the pool under the category table
ExpectedTypeFolder(name) ==
    CASE name = <<"a", ".", "j", "p", "g">> -> Images
      [] name = <<"1", ".", "P", "D", "F">> -> Documents
      [] OTHER -> Others

\* C7: a run with mode type, action move, policy rename, not a dry run, not
\* cancelled (and with no failing call) returns with succeeded = total and
\* failed = skipped = 0; no enumerated file exists at its source path any
\* more and each is a regular file in its category folder under dest.
C7_TypeMoveRenameMovesAll ==
    (/\ pc = "returned" /\ cancelAt = -1
     /\ cfg.mode = "type" /\ cfg.action = "move" /\ cfg.conflict_policy = "rename"
     /\ ~cfg.dry_run) =>
        /\ stats.succeeded = stats.total /\ stats.failed = 0 /\ stats.skipped = 0
        /\ stats.total = Len(files)
        /\ \A i \in 1..Len(files) :
              /\ ~Exists(fs, files[i])
              /\ \E p \in FilesUnder(fs, cfg.dest) :
                    /\ Parent(p) = Join(cfg.dest, ExpectedTypeFolder(Name(files[i])))
                    /\ fs[p] = fs0[files[i]]

\* C7 witness: such a run has returned after moving two files, one of them
\* past an existing destination.
C7_Witness ==
    /\ pc = "returned" /\ cancelAt = -1
    /\ cfg.mode = "type" /\ cfg.action = "move" /\ cfg.conflict_policy = "rename"
    /\ ~cfg.dry_run
    /\ stats.total = 2
    /\ \E k \in 1..Len(outcomes) : outcomes[k].conflict = "file"

\* C8: the list process_directory gets from list_files(source, recursive,
\* dest), dest being under source, holds each regular file of the listing
\* (below source at any depth when recursive, directly in source otherwise)
\* that is not at any depth inside dest, once, and nothing else.
C8_ListExcludesSubtree ==
    pc \in {"check", "body", "returned"} =>
        /\ {files[i] : i \in 1..Len(files)} =
              {p \in DOMAIN fs0 :
                  /\ fs0[p].kind = "file"
                  /\ IF cfg.recursive
                     THEN Len(p) > Len(cfg.source) /\ SubSeq(p, 1, Len(cfg.source)) = cfg.source
                     ELSE Len(p) = Len(cfg.source) + 1 /\ SubSeq(p, 1, Len(cfg.source)) = cfg.source
                  /\ ~(Len(p) > Len(cfg.dest) /\ SubSeq(p, 1, Len(cfg.dest)) = cfg.dest)}
        /\ Cardinality({files[i] : i \in 1..Len(files)}) = Len(files)

\* C8 witness: a recursive listing has returned a file of a subfolder while
\* a regular file two levels inside the excluded directory was left out.
C8_Witness ==
    /\ pc = "check" /\ cfg.recursive
    /\ \E i \in 1..Len(files) : Len(files[i]) = Len(cfg.source) + 2
    /\ \E p \in FilesUnder(fs0, cfg.dest) : Len(p) = Len(cfg.dest) + 2

\* C9: in mode type the destination computed for a file is
\* dest/<category>/<file name>, the category being the entry of the
\* extension index for the lower-cased suffix, Others when there is none
\* (a.jpg: Images; 1.PDF: Documents; a name without suffix: Others).
C9_TypeDestination ==
    cfg.mode = "type" =>
        \A k \in 1..Len(outcomes) :
            LET name == Name(outcomes[k].file)
                index == build_ext_index(cfg.categories)
                suffix == Lower(Suffix(name))
                category == IF suffix \in DOMAIN index THEN index[suffix] ELSE Others
            IN  /\ outcomes[k].dest_file = Join(Join(cfg.dest, category), name)
                /\ category = ExpectedTypeFolder(name)
                /\ Suffix(name) = <<>> => category = Others

\* C9 witness: in mode type a file with an upper-case mapped suffix and a
\* file without suffix have been processed.
C9_Witness ==
    /\ cfg.mode = "type"
    /\ \E k \in 1..Len(outcomes) : Suffix(Name(outcomes[k].file)) = <<".", "P", "D", "F">>
    /\ \E k \in 1..Len(outcomes) : Suffix(Name(outcomes[k].file)) = <<>>

\* C10: in mode first_letter the destination computed for a file is
\* dest/<L>/<file name>, L the upper-cased first character of the stem when
\* that character is alphabetic, and dest/#/<file name> when it is not.
C10_FirstLetterDestination ==
    cfg.mode = "first_letter" =>
        \A k \in 1..Len(outcomes) :
            LET name == Name(outcomes[k].file)
                first == Stem(name)[1]
                folder == IF IsAlphaChar(first) THEN UpperChar(first) ELSE Hash
            IN  outcomes[k].dest_file = Join(Join(cfg.dest, folder), name)

\* C11 (as claimed): in process_directory a loop body in which the stat of
\* the file, the look at the destination, the creation of the folders or the
\* move or copy fails ends with outcome False, counted in failed, and the
\* loop goes on; no loop body ends process_directory with an exception, and
\* at return processed = total.
C11_FailuresCountedNotPropagated ==
    [][ /\ pc = "body" => pc' \in {"body", "check"}
        /\ (/\ pc = "body" /\ pc' = "check"
            /\ Last(outcomes').fault \in {"stat", "exists", "mkdir", "transfer"})
           => /\ Last(outcomes').result = "False"
              /\ stats'.failed = stats.failed + 1
              /\ stats'.processed = stats.processed + 1
        /\ pc' = "returned" => stats'.processed = stats'.total ]_vars

\* C12 (as claimed): with a mode or a conflict policy outside the closed
\* sets process_directory raises before the loop: it never returns
\* counters, no file has got an outcome, nothing under source or dest has
\* changed and the journal has no record.
C12_UnknownConfigRaisesBeforeLoop ==
    (cfg.mode \notin Modes \/ cfg.conflict_policy \notin Policies) =>
        /\ pc # "returned"
        /\ stats.processed = 0
        /\ fs = fs0
        /\ journal.text = <<>>

\* the outcomes counted as succeeded, in the order of the transfers
Succeeded == SelectSeq(outcomes, LAMBDA o : o.result = "True")

\* C13 (as claimed): at every point of a run that is not a dry run and that
\* started without a journal, the journal holds one record
\* ACTION|source|destination per file counted as succeeded so far, in the
\* order of the transfers, and nothing else; a step of the run only appends
\* to the journal text.
C13_JournalMatchesSucceeded ==
    /\ [] ((pc \in {"check", "body", "returned"} /\ ~cfg.dry_run) =>
             /\ Len(JournalRecords) = Len(Succeeded)
             /\ \A k \in 1..Len(JournalRecords) :
                   JournalRecords[k] = << ActionUpper(cfg.action),
                                          PathStr(Succeeded[k].file),
                                          PathStr(Succeeded[k].final_dest) >>)
    /\ [][ (pc \in {"check", "body"}) =>
             (Len(journal'.text) >= Len(journal.text)
              /\ SubSeq(journal'.text, 1, Len(journal.text)) = journal.text) ]_vars

\* C14: perform_undo takes the journal lines in reverse order of writing:
\* the i-th line it handles is the line at position total + 1 - i of the
\* journal, the record of the transfer counted as succeeded at that
\* position; when it has returned it has handled every line.
C14_UndoInReverseOrder ==
    /\ pc = "undo" =>
          /\ undo.lines = ReadLines(journal.text)
          /\ Len(undo.handled) = undo.idx - 1
    /\ pc = "undone" => Len(undo.handled) = undo.total
    /\ pc \in {"undo", "undone"} =>
          \A i \in 1..Len(undo.handled) :
              /\ undo.handled[i] = undo.lines[undo.total + 1 - i]
              /\ Split(Strip(undo.handled[i]), "|")[2]
                    = PathStr(Succeeded[undo.total + 1 - i].file)

\* C14 witness: a replay of two records has returned; it handled the record
\* of the second transfer first.
C14_Witness ==
    /\ pc = "undone" /\ undo.total = 2 /\ Len(Succeeded) = 2
    /\ Split(Strip(undo.handled[1]), "|")[2] = PathStr(Succeeded[2].file)
    /\ Split(Strip(undo.handled[2]), "|")[2] = PathStr(Succeeded[1].file)
    /\ Succeeded[1].file # Succeeded[2].file

C16_UndoCounters ==
    [][ /\ (pc = "undo" /\ undo'.idx = undo.idx + 1) =>
               \E parts \in {Split(Strip(Last(undo'.handled)), "|")} :
               \E dst \in {IF Len(parts) = 3 THEN ParsePath(parts[3]) ELSE <<>>} :
                   /\ undo'.total = Len(undo.lines) /\ undo'.total = undo.total
                   /\ undo'.succeeded + undo'.failed <= undo'.total
                   /\ IF Len(parts) # 3
                      THEN /\ undo'.failed = undo.failed + 1
                           /\ undo'.succeeded = undo.succeeded
                           /\ fs' = fs
                      ELSE IF ~Exists(fs, dst)
                      THEN /\ undo'.failed = undo.failed
                           /\ undo'.succeeded = undo.succeeded
                           /\ fs' = fs
                      ELSE IF undo'.succeeded = undo.succeeded + 1
                      THEN /\ undo'.failed = undo.failed
                           /\ ~Exists(fs', dst)
                      ELSE /\ undo'.failed = undo.failed + 1
                           /\ undo'.succeeded = undo.succeeded
                           /\ fs' = fs
        /\ (pc = "undo" /\ pc' = "undone") => Len(undo.handled) = undo.total ]_vars

\* C16 witness: a replay of two lines has returned with one line reverted
\* and one line with more than three fields counted as failed.
C16_Witness ==
    /\ pc = "undone" /\ undo.total = 2
    /\ undo.succeeded = 1 /\ undo.failed = 1
    /\ \E i \in 1..2 : Len(Split(Strip(undo.handled[i]), "|")) > 3

\* C17 (as claimed): in a dry run, under every conflict policy, every
\* regular file that existed before the run, in source or under dest, is
\* still there with its content, and every path that is new is a directory.
C17_DryRunKeepsEveryFile ==
    cfg.dry_run =>
        /\ \A p \in DOMAIN fs0 :
              fs0[p].kind = "file" => (p \in DOMAIN fs /\ fs[p] = fs0[p])
        /\ \A p \in DOMAIN fs \ DOMAIN fs0 : IsDir(fs, p)

\* C18 (as claimed): a loop body whose transfer fails (the organizer had a
\* final destination and its outcome is False) leaves the source file at
\* its path with its content, creates no file at the destination, leaves a
\* file that was at the destination in place, and appends no record.
C18_FailedTransferLeavesNoTrace ==
    [][ (/\ pc = "body" /\ pc' = "check"
         /\ Last(outcomes').result = "False"
         /\ Last(outcomes').final_dest # <<>>)
        => LET o == Last(outcomes')
           IN  /\ IsFile(fs', o.file) /\ fs'[o.file] = fs[o.file]
               /\ ~Exists(fs, o.final_dest) => ~Exists(fs', o.final_dest)
               /\ IsFile(fs, o.dest_file) =>
                     (IsFile(fs', o.dest_file) /\ fs'[o.dest_file] = fs[o.dest_file])
               /\ journal' = journal ]_vars

\* C19 (as claimed): when cancel_event was set while the OrganizerWorker
\* ran process_directory, the worker emits finished with cancelled = True
\* and with the five counters, processed being the number of files
\* processed so far.
C19_CancelReportedWithStats ==
    (gui.organizer_worker = "emitted" /\ cancelAt >= 0) =>
        /\ gui.finished.cancelled
        /\ {kv[1] : kv \in gui.finished.stats}
              = {"total", "processed", "succeeded", "failed", "skipped"}
        /\ <<"processed", Len(outcomes)>> \in gui.finished.stats

\* C20 (as claimed): the main window never has an OrganizerWorker in the
\* loop of process_directory while an UndoWorker is in the replay loop of
\* perform_undo on the same journal.
C20_RunAndUndoSerialized ==
    ~(/\ gui.organizer_worker = "running" /\ pc \in {"check", "body"}
      /\ gui.undo_worker = "running")

\* C21: the index build_ext_index makes of the category table has as keys
\* the lower-cased non-empty extensions of the table and no other key (the
\* empty string is no key); each key is mapped to the name of the first
\* category, in insertion order, that lists the extension in some letter
\* case; in mode type the folder of a processed file is the entry of its
\* lower-cased suffix.
C21_IndexFirstCategoryWins ==
    LET t == cfg.categories
        index == build_ext_index(t)
        lists(k, x) == \E e \in t[k].exts : e # <<>> /\ Lower(e) = x
    IN  /\ DOMAIN index = {Lower(e) : e \in (UNION {t[k].exts : k \in 1..Len(t)}) \ {<<>>}}
        /\ <<>> \notin DOMAIN index
        /\ \A x \in DOMAIN index :
              \E k \in 1..Len(t) :
                  /\ lists(k, x)
                  /\ \A j \in 1..(k - 1) : ~lists(j, x)
                  /\ index[x] = t[k].name
        /\ cfg.mode = "type" =>
              \A k \in 1..Len(outcomes) :
                  LET x == Lower(Suffix(Name(outcomes[k].file)))
                  IN  x \in DOMAIN index =>
                          outcomes[k].dest_file
                              = Join(Join(cfg.dest, index[x]), Name(outcomes[k].file))

\* C21 witness: the table lists .JPG in its first category and .jpg in its
\* second one, and an empty extension; a.jpg has been moved to the folder
\* of the first category.
C21_Witness ==
    /\ ExtJpgUpper \in cfg.categories[1].exts
    /\ ExtJpg \in cfg.categories[2].exts
    /\ <<>> \in cfg.categories[2].exts
    /\ pc = "returned"
    /\ \E k \in 1..Len(outcomes) :
          /\ outcomes[k].result = "True"
          /\ outcomes[k].final_dest
                = Join(Join(cfg.dest, cfg.categories[1].name), <<"a", ".", "j", "p", "g">>)

\* C22: a loop body under policy rename that computed a destination d has
\* as final destination d itself when d did not exist, and otherwise
\* name (k).ext next to d for the smallest k >= 1 whose path did not exist;
\* the final destination did not exist before the transfer, and every
\* regular file other than the transferred source is afterwards where it
\* was, with its content.
C22_RenameFirstFreeName ==
    [][ (/\ pc = "body" /\ pc' = "check"
         /\ cfg.conflict_policy = "rename"
         /\ Last(outcomes').dest_file # <<>>)
        => \E o \in {Last(outcomes')} :
               /\ o.final_dest # <<>>
               /\ ~Exists(fs, o.final_dest)
               /\ IF ~Exists(fs, o.dest_file)
                  THEN o.final_dest = o.dest_file
                  ELSE \E k \in 1..(Cardinality(DOMAIN fs) + 1) :
                          /\ o.final_dest = Renamed(o.dest_file, k)
                          /\ \A j \in 1..(k - 1) : Exists(fs, Renamed(o.dest_file, j))
               /\ \A p \in DOMAIN fs :
                     (fs[p].kind = "file" /\ p # o.file) =>
                         (p \in DOMAIN fs' /\ fs'[p] = fs[p]) ]_vars

\* C22 witness: a run under rename has transferred a file to name (1).ext,
\* name.ext being taken, and then a file to name (2).ext, name.ext and
\* name (1).ext being taken; the three files are there.
C22_Witness ==
    /\ cfg.conflict_policy = "rename" /\ ~cfg.dry_run
    /\ Len(outcomes) = 2
    /\ outcomes[1].result = "True" /\ outcomes[2].result = "True"
    /\ outcomes[1].final_dest = Renamed(outcomes[1].dest_file, 1)
    /\ outcomes[2].final_dest = Renamed(outcomes[1].dest_file, 2)
    /\ IsFile(fs, outcomes[1].dest_file)
    /\ IsFile(fs, outcomes[1].final_dest)
    /\ IsFile(fs, outcomes[2].final_dest)

\* C23 (as claimed): a loop body under policy overwrite whose computed
\* destination is an existing directory gets that destination back from
\* resolve_conflict, and after the transfer attempt, whatever its outcome,
\* the directory and every entry that was in it are still there as they
\* were.
C23_OverwriteKeepsDirectory ==
    [][ (/\ pc = "body" /\ Len(outcomes') = Len(outcomes) + 1
         /\ cfg.conflict_policy = "overwrite"
         /\ Last(outcomes').dest_file # <<>>
         /\ IsDir(fs, Last(outcomes').dest_file))
        => \E o \in {Last(outcomes')} :
               /\ o.fault # "exists" => o.final_dest = o.dest_file
               /\ \A p \in DOMAIN fs :
                     IsUnder(p, o.dest_file) => (p \in DOMAIN fs' /\ fs'[p] = fs[p]) ]_vars

\* C24: on_progress has been called once per processed file and for no
\* other file: the k-th call has index k, the total of the run, the k-th
\* enumerated file and the outcome of that file, and it comes when the
\* file has been counted (the number of calls is processed, the index of
\* the last call is processed); the files a cancelled run left unprocessed
\* have no call.
C24_ProgressOncePerProcessedFile ==
    /\ pc \in {"check", "body", "returned"} =>
          /\ Len(progress) = stats.processed
          /\ Len(progress) = Len(outcomes)
          /\ \A k \in 1..Len(progress) :
                /\ progress[k].i = k
                /\ progress[k].total = Len(files)
                /\ progress[k].file = files[k]
                /\ progress[k].result = outcomes[k].result
                /\ progress[k].result \in {"True", "False", "None"}
          /\ \A i \in (stats.processed + 1)..Len(files) :
                \A k \in 1..Len(progress) : progress[k].file # files[i]
    /\ (pc = "returned" /\ cancelAt >= 0) => Len(progress) = cancelAt

\* C24 witness: a run over two files has returned after a cancellation;
\* on_progress was called for the first file, which was skipped, and not
\* for the second.
C24_Witness ==
    /\ pc = "returned" /\ cancel /\ Len(files) = 2
    /\ Len(progress) = 1
    /\ progress[1] = [i |-> 1, total |-> 2, file |-> files[1], result |-> "None"]

\* C25: in mode size the destination computed for a file is
\* dest/<class>/<file name>; the class is "Small (Under 1MB)" exactly when
\* the size in bytes is below 1048576, "Medium (1-100MB)" exactly when it
\* is at least 1048576 and below 104857600, "Large (Over 100MB)" exactly
\* when it is at least 104857600.
C25_SizeClasses ==
    cfg.mode = "size" =>
        \A k \in 1..Len(outcomes) :
            \E size \in {fs0[outcomes[k].file].size}, d \in {outcomes[k].dest_file} :
                /\ Len(d) = Len(cfg.dest) + 2
                /\ Parent(Parent(d)) = cfg.dest
                /\ Name(d) = Name(outcomes[k].file)
                /\ Name(Parent(d)) = SmallCat <=> size < 1048576
                /\ Name(Parent(d)) = MediumCat <=> (size >= 1048576 /\ size < 104857600)
                /\ Name(Parent(d)) = LargeCat <=> size >= 104857600

\* C25 witness: a file of exactly 1 MiB has been moved to the Medium folder
\* and a file of exactly 100 MiB to the Large folder.
C25_Witness ==
    /\ cfg.mode = "size" /\ pc = "returned"
    /\ \E k \in 1..Len(outcomes) :
          /\ fs0[outcomes[k].file].size = 1048576
          /\ outcomes[k].result = "True"
          /\ IsFile(fs, Join(Join(cfg.dest, MediumCat), Name(outcomes[k].file)))
    /\ \E k \in 1..Len(outcomes) :
          /\ fs0[outcomes[k].file].size = 104857600
          /\ outcomes[k].result = "True"
          /\ IsFile(fs, Join(Join(cfg.dest, LargeCat), Name(outcomes[k].file)))

\* the undo records of the transfers the most recent run counted as
\* succeeded
LastRunRecords ==
    {<<ActionUpper(cfg.action), PathStr(Succeeded[k].file), PathStr(Succeeded[k].final_dest)>> :
        k \in 1..Len(Succeeded)}

CountOf(result) == Len(SelectSeq(outcomes, LAMBDA o : o.result = result))

\* C27: at every point of the loop of process_directory and at return,
\* processed = succeeded + failed + skipped and processed <= total; the
\* files that have an outcome are the first processed files of the
\* enumeration, one outcome each, no file twice, and each counter is the
\* number of outcomes of its kind; a run that returns without a set
\* cancel_event has processed = total.
C27_CountersAddUp ==
    pc \in {"check", "body", "returned"} =>
        /\ stats.processed = stats.succeeded + stats.failed + stats.skipped
        /\ stats.processed <= stats.total
        /\ stats.total = Len(files)
        /\ Len(outcomes) = stats.processed
        /\ \A k \in 1..Len(outcomes) :
              /\ outcomes[k].file = files[k]
              /\ outcomes[k].result \in {"True", "False", "None"}
        /\ \A i, j \in 1..Len(files) : files[i] = files[j] => i = j
        /\ stats.succeeded = CountOf("True")
        /\ stats.failed = CountOf("False")
        /\ stats.skipped = CountOf("None")
        /\ (pc = "returned" /\ cancelAt = -1) => stats.processed = stats.total

\* C27 witness: a run over two files has returned without cancellation,
\* one file counted as succeeded and one as failed.
C27_Witness ==
    /\ pc = "returned" /\ cancelAt = -1
    /\ stats.total = 2 /\ stats.processed = 2
    /\ stats.succeeded = 1 /\ stats.failed = 1 /\ stats.skipped = 0

\* C28 (as claimed): at every point of a run under policy rename or skip
\* that is not a dry run, every regular file that was under dest when the
\* run started is still there unchanged, and every enumerated source file
\* is, with its content, at its source path or at the destination written
\* in its undo record.
C28_RenameSkipKeepContent ==
    (/\ pc \in {"check", "body", "returned", "raised"}
     /\ cfg.conflict_policy \in {"rename", "skip"} /\ ~cfg.dry_run) =>
        /\ \A p \in FilesUnder(fs0, cfg.dest) : p \in DOMAIN fs /\ fs[p] = fs0[p]
        /\ \A i \in 1..Len(files) :
              \/ IsFile(fs, files[i]) /\ fs[files[i]] = fs0[files[i]]
              \/ \E r \in 1..Len(JournalRecords) :
                    /\ JournalRecords[r][2] = PathStr(files[i])
                    /\ \E q \in DOMAIN fs :
                          PathStr(q) = JournalRecords[r][3] /\ fs[q] = fs0[files[i]]

\* C29 (as claimed): a loop body that appends an undo record leaves the
\* transferred file, a regular file with the content of the source, at
\* the very path the record names as destination; and a replay step that
\* counts a line as succeeded has moved a regular file from the recorded
\* destination to the recorded source, nothing else.
C29_RecordNamesResidence ==
    [][ /\ (pc = "body" /\ journal'.text # journal.text) =>
               \E o \in {Last(outcomes')} :
                   /\ journal'.text
                         = journal.text \o ActionUpper(cfg.action) \o <<"|">> \o PathStr(o.file)
                               \o <<"|">> \o PathStr(o.final_dest) \o <<"\n">>
                   /\ IsFile(fs', o.final_dest)
                   /\ fs'[o.final_dest] = fs[o.file]
        /\ (pc = "undo" /\ undo'.succeeded = undo.succeeded + 1) =>
               \E parts \in {Split(Strip(Last(undo'.handled)), "|")} :
               \E src \in {ParsePath(parts[2])}, dst \in {ParsePath(parts[3])} :
                   /\ IsFile(fs, dst)
                   /\ IsFile(fs', src) /\ fs'[src] = fs[dst]
                   /\ \A p \in DOMAIN fs : p \notin {src, dst} =>
                          (p \in DOMAIN fs' /\ fs'[p] = fs[p]) ]_vars

\* C30 (as claimed): a replay step that counts a COPY line as succeeded
\* has removed the copy at the recorded destination and has left the
\* source file at the recorded source path with the content it had before
\* the step.
C30_UndoCopyKeepsSource ==
    [][ (/\ pc = "undo" /\ undo'.succeeded = undo.succeeded + 1
         /\ cfg.action = "copy")
        => \E parts \in {Split(Strip(Last(undo'.handled)), "|")} :
           \E src \in {ParsePath(parts[2])}, dst \in {ParsePath(parts[3])} :
               /\ parts[1] = <<"C", "O", "P", "Y">>
               /\ ~Exists(fs', dst)
               /\ IsFile(fs', src)
               /\ IsFile(fs, src) => fs'[src].content = fs[src].content ]_vars

====
